---- MODULE Spec2Model ----
(***************************************************************************)
(* Verification model of the naver_blog_autopilot decision core:           *)
(*   - the anti-abuse publish gate (modules/publisher/anti_detection.py)   *)
(*     and the publish paths that use it (main.py cmd_publish, the API     *)
(*     route publish_post, NaverBlogPoster.publish),                       *)
(*   - the humanizer acceptance policy (modules/generator/humanizer.py),   *)
(*   - category rotation (main.py _get_current_publish_category) and the   *)
(*     next publish time (AntiDetection.get_next_publish_time),            *)
(*   - SEO scoring (modules/generator/seo_optimizer.py, _review_seo),      *)
(*   - the post store: cmd_generate, cmd_review --fix, the API routes      *)
(*     that edit posts, duplicate check and legal references.              *)
(*                                                                         *)
(* Time is the host's local wall clock in whole hours.  posting_history    *)
(* rows keep the local time written by datetime.now().isoformat(); SQLite  *)
(* 'now' is UTC, i.e. the local clock minus the host's UTC offset.         *)
(***************************************************************************)
EXTENDS Integers, Sequences, FiniteSets, TLC

VARIABLES
    now,          \* local wall clock (hours)
    tz,           \* UTC offset of the host (hours): local = UTC + tz
    ticks,        \* hours elapsed since the start of the run
    history,      \* posting_history rows, in insertion order
    post_status,  \* posts.status per post id
    att,          \* publish attempts (one per process / request thread)
    hz,           \* one invocation of Humanizer.review_and_fix
    rv,           \* a HumanReviewResult object receiving add_issue calls
    rot,          \* one call of _get_current_publish_category
    sched,        \* one call of AntiDetection.get_next_publish_time
    seo,          \* one call of SEOOptimizer.calculate_score
    posts,        \* posts rows: body and the scores stored with it
    legal_references,  \* legal_references rows, as (post id, citation) pairs
    gen,          \* the content operation in progress (generate, extract)
    det           \* results of detect_ai_patterns calls on one body

gateVars == <<now, tz, ticks, history, post_status, att>>

\* the state of the content side: rotation, scheduling, scoring, post store
contentVars == <<rot, sched, seo, posts, legal_references, gen, det>>

vars == <<now, tz, ticks, history, post_status, att, hz, rv, contentVars>>

----------------------------------------------------------------------------
(* settings.py *)
MIN_INTERVAL_HOURS == 4
MAX_POSTS_PER_DAY == 2
MAX_POSTS_PER_WEEK == 5

(* calendar *)
HoursPerDay == 24
DaysPerWeek == 7

(* bounds of the model *)
NumPosts == 2
MaxTicks == 1
MaxInitHist == 5
MaxIssues == 11

Posts == 1..NumPosts
Attempts == {1, 2}

----------------------------------------------------------------------------
(* helpers *)
Max(S) == CHOOSE x \in S : \A y \in S : y <= x


----------------------------------------------------------------------------
(* Text features (the quantities humanizer.py reads off a body).           *)
(* A body is the record of the counts the detector, the quick fixes and    *)
(* the rewrite validation compute from the text:                           *)
(*   len        len(body)                                                  *)
(*   kw, kwVar  body.count(keyword); matches of keyword[:2] + 1..6 Hangul  *)
(*   link       "silmu.kr" in body                                         *)
(*   tables     lines matching ^\|.+\|$                                    *)
(*   cliche     number of AI_CLICHE_PATTERNS that match                    *)
(*   phrases    occurrences of each of the 9 direct phrases                *)
(*   connectors occurrences of each of the 15 AI_OVERUSED_CONNECTORS       *)
(*   ttoSp      matches of  ttohan[,]?\s (connector 1 and a blank)         *)
(*   nida .. rago   the six sentence-ending counts                         *)
(*   geos       occurrences of "geos-imnida." (each is a nida ending too)  *)
(*   bold, ordinal, faq, advice, personal   the respective counts          *)
(*   excl, exclRuns   '!' characters and maximal runs of '!'               *)
(*   paras      lengths of the paragraphs (no heading / table blocks)      *)
(*   maxStart   highest repeat count of a paragraph-opening word           *)
(*   sections   bullet lines of each '## ' section                         *)

Max2(a, b) == IF a >= b THEN a ELSE b

RECURSIVE SumSeq(_)
SumSeq(s) == IF s = <<>> THEN 0 ELSE Head(s) + SumSeq(Tail(s))

RECURSIVE SumSquares(_)
SumSquares(s) == IF s = <<>> THEN 0 ELSE Head(s) * Head(s) + SumSquares(Tail(s))

----------------------------------------------------------------------------
(* class HumanReviewResult *)

NewReview == [issues |-> <<>>, score |-> 100, rewritten_body |-> <<>>]

add_issue_noclamp(r, category, severity) ==
    [r EXCEPT !.issues = Append(@, [category |-> category, severity |-> severity]),
              !.score = @ - severity]

add_issue(r, category, severity) ==
    [r EXCEPT !.issues = Append(@, [category |-> category, severity |-> severity]),
              !.score = Max2(0, @ - severity)]

needs_rewrite_leq(r) == r.score <= 80

needs_rewrite(r) == r.score < 80

----------------------------------------------------------------------------
(* detect_ai_patterns: the twelve rule groups, in the order of the code *)

\* ai_direct_phrases: the severities of the 9 phrases, in list order
PhraseSeverity == <<3, 3, 3, 3, 2, 2, 2, 2, 2>>

RECURSIVE AddCliche(_, _)
AddCliche(r, n) ==
    IF n = 0 THEN r ELSE AddCliche(add_issue(r, "cliche", 4), n - 1)

\* the loop over ai_direct_phrases from index i with running ai_phrase_count
RECURSIVE PhraseLoop(_, _, _, _)
PhraseLoop(r, counts, i, total) ==
    IF i > Len(counts) THEN
        IF total >= 3 THEN add_issue(r, "cliche_total", 5) ELSE r
    ELSE IF counts[i] >= 1 THEN
        LET t == total + counts[i] IN
        PhraseLoop(IF t <= 3 THEN add_issue(r, "cliche_phrase", PhraseSeverity[i]) ELSE r,
                   counts, i + 1, t)
    ELSE PhraseLoop(r, counts, i + 1, total)

RuleConnectors(r, b) ==
    LET n == Cardinality({i \in DOMAIN b.connectors : b.connectors[i] >= 2}) IN
    IF n >= 3 THEN add_issue(r, "connector", 6)
    ELSE IF n >= 2 THEN add_issue(r, "connector", 3)
    ELSE r

RuleEndings(r, b) ==
    LET total == b.nida + b.seyo + b.ndeyo + b.geodeunyo + b.jiyo + b.rago IN
    IF total > 0 THEN
        IF 100 * b.nida > 85 * total /\ b.nida >= 15 THEN add_issue(r, "ending", 7)
        ELSE IF 100 * b.nida > 75 * total /\ b.nida >= 10 THEN add_issue(r, "ending", 4)
        ELSE r
    ELSE r

RuleBold(r, b) ==
    IF b.bold >= 15 THEN add_issue(r, "bold", 5)
    ELSE IF b.bold >= 10 THEN add_issue(r, "bold", 3)
    ELSE r

RuleOrdinal(r, b) == IF b.ordinal >= 3 THEN add_issue(r, "ordinal", 5) ELSE r

RuleFaq(r, b) == IF b.faq = 3 THEN add_issue(r, "faq", 4) ELSE r

\* cv = sqrt(variance) / avg < 0.20, in integers:
\* with n lengths of sum S and sum of squares Q, 25 * (n*Q - S*S) < S*S
RuleParagraphLength(r, b) ==
    LET n == Len(b.paras)
        S == SumSeq(b.paras)
        Q == SumSquares(b.paras)
    IN IF n >= 4 /\ S > 0 /\ 25 * (n * Q - S * S) < S * S
       THEN add_issue(r, "para_uniform", 4) ELSE r

RuleParagraphStart(r, b) ==
    IF Len(b.paras) >= 5 /\ b.maxStart >= 3 THEN add_issue(r, "para_start", 4) ELSE r

RuleExclamation(r, b) == IF b.excl > 8 THEN add_issue(r, "exclamation", 3) ELSE r

\* h2_sections = re.split('^## ') has one more part than there are sections
RuleSections(r, b) ==
    IF Len(b.sections) + 1 >= 4
       /\ b.sections # <<>>
       /\ Cardinality({b.sections[i] : i \in DOMAIN b.sections}) = 1
       /\ b.sections[1] >= 3
    THEN add_issue(r, "section", 5) ELSE r

RuleAdvice(r, b) == IF b.advice >= 4 THEN add_issue(r, "advice", 3) ELSE r

RulePersonal(r, b) == IF b.personal = 0 THEN add_issue(r, "personal", 5) ELSE r

\* the rules in the order of the function body, applied to the result object r0
DetectFrom(r0, b) ==
    LET r1  == AddCliche(r0, b.cliche)
        r1b == PhraseLoop(r1, b.phrases, 1, 0)
        r2  == RuleConnectors(r1b, b)
        r3  == RuleEndings(r2, b)
        r4  == RuleBold(r3, b)
        r5  == RuleOrdinal(r4, b)
        r6  == RuleFaq(r5, b)
        r7  == RuleParagraphLength(r6, b)
        r8  == RuleParagraphStart(r7, b)
        r9  == RuleExclamation(r8, b)
        r10 == RuleSections(r9, b)
        r11 == RuleAdvice(r10, b)
    IN RulePersonal(r11, b)

detect_ai_patterns_shared(b) == DetectFrom(rv, b)

\* result = HumanReviewResult(): every call starts from a new result object
detect_ai_patterns(b) == DetectFrom(NewReview, b)

----------------------------------------------------------------------------
(* quick_fix_patterns *)

AdjustLast(paras, delta) ==
    IF paras = <<>> THEN paras ELSE [paras EXCEPT ![Len(paras)] = @ + delta]

\* 1. re.sub('!{2,}', '!'): every maximal run of '!' becomes one '!'
FixExclamations(b) ==
    [b EXCEPT !.len = @ - (b.excl - b.exclRuns),
              !.paras = AdjustLast(@, 0 - (b.excl - b.exclRuns)),
              !.excl = b.exclRuns]

\* 2. replace_connector deletes the 5th, 9th, ... match (i = 0 and idx > 1)
\*    when the connector occurs at least 5 times; each match is 3 characters
ConnectorDeletions(b) ==
    IF b.connectors[1] >= 5 /\ b.ttoSp >= 1 THEN (b.ttoSp - 1) \div 4 ELSE 0

FixConnector(b) ==
    LET d == ConnectorDeletions(b) IN
    [b EXCEPT !.connectors[1] = @ - d, !.ttoSp = @ - d,
              !.len = @ - 3 * d, !.paras = AdjustLast(@, 0 - 3 * d)]

\* 3. diversify_endings replaces match i (0-based) when i % 3 = 0 and i > 0 by
\*    ending_replacements[i % 4]; applied when there are at least 5 matches.
\*    Replaced(g, r): how many of g matches are replaced by replacement r.
Replaced(g, r) ==
    IF g >= 5 THEN Cardinality({i \in 1..(g - 1) : i % 3 = 0 /\ i % 4 = r}) ELSE 0

\* replacement 0 "geodeunyo."  (5 -> 4 characters, a geodeunyo ending)
\* replacement 1 "sem-ijyo."   (5 -> 4 characters, a jiyo ending)
\* replacement 2 "neun geomnida." (5 -> 6 characters, still a nida ending)
\* replacement 3 "jeom, gieokhaseyo." (5 -> 9 characters, a seyo ending and
\*               one more advice phrase)
FixEndings(b) ==
    LET g  == b.geos
        n0 == Replaced(g, 0)
        n1 == Replaced(g, 1)
        n2 == Replaced(g, 2)
        n3 == Replaced(g, 3)
        dl == n2 + 4 * n3 - n0 - n1
    IN [b EXCEPT !.geos = @ - (n0 + n1 + n2 + n3),
                 !.nida = @ - (n0 + n1 + n3),
                 !.geodeunyo = @ + n0,
                 !.jiyo = @ + n1,
                 !.seyo = @ + n3,
                 !.advice = @ + n3,
                 !.len = @ + dl,
                 !.paras = AdjustLast(@, dl)]

quick_fix_patterns(b) == FixEndings(FixConnector(FixExclamations(b)))

----------------------------------------------------------------------------
(* humanize_body: the rewrite call and the validation of its result.      *)
(* keyword is [len |-> n]; an empty keyword has len 0.                    *)
(* outcome is the collaborator's answer: [failed |-> TRUE] or             *)
(* [failed |-> FALSE, body |-> the rewritten text].                       *)

LengthOk(original, rewritten) ==
    /\ ~(10 * rewritten.len < 7 * original.len)
    /\ ~(10 * rewritten.len > 14 * original.len)

KeywordOk(original, rewritten, keyword) ==
    LET original_kw_count == IF keyword.len > 0 THEN original.kw ELSE 0
        rewritten_kw_count == IF keyword.len > 0 THEN rewritten.kw ELSE 0
        kw_variants_count == IF keyword.len >= 4 THEN rewritten.kwVar
                             ELSE rewritten_kw_count
    IN (keyword.len > 0 /\ original_kw_count > 0)
       => ~(10 * rewritten_kw_count < 3 * original_kw_count
            /\ 2 * kw_variants_count < original_kw_count)

LinkOk(original, rewritten) == ~(original.link /\ ~rewritten.link)

TablesOk_any(original, rewritten) ==
    ~(original.tables > 0 /\ rewritten.tables = 0)

TablesOk(original, rewritten) ==
    ~(original.tables > 0 /\ 2 * rewritten.tables < original.tables)

RewriteValid(original, rewritten, keyword) ==
    /\ LengthOk(original, rewritten)
    /\ KeywordOk(original, rewritten, keyword)
    /\ LinkOk(original, rewritten)
    /\ TablesOk(original, rewritten)

\* does humanize_body reach the API call?
CallsRewriter(review) == review.issues # <<>>

humanize_body(b, keyword, review, outcome) ==
    IF ~CallsRewriter(review) THEN b
    ELSE IF outcome.failed THEN b
    ELSE IF RewriteValid(b, outcome.body, keyword) THEN outcome.body
    ELSE b

----------------------------------------------------------------------------
(* Humanizer.review_and_fix *)

ShouldRewrite_always(review, force_rewrite) == TRUE

ShouldRewrite(review, force_rewrite) == needs_rewrite(review) \/ force_rewrite

\* the re-check after humanize_body returned `text` (lines 512-521)
KeepImproved_always(post_review, review) == TRUE

KeepImproved_geq(post_review, review) == post_review.score >= review.score

KeepImproved(post_review, review) == post_review.score > review.score

AfterRewrite(body, review, text) ==
    LET post_review == detect_ai_patterns(text) IN
    IF KeepImproved(post_review, review)
    THEN [body |-> text, review |-> [post_review EXCEPT !.rewritten_body = <<text>>]]
    ELSE [body |-> body, review |-> review]

----------------------------------------------------------------------------
(* Input bodies of the model *)

Zeros(n) == [i \in 1..n |-> 0]

\* a varied, personal text: no rule triggers
CleanBody ==
    [len |-> 200, kw |-> 4, kwVar |-> 4, link |-> TRUE, tables |-> 5,
     cliche |-> 0, phrases |-> Zeros(9), connectors |-> Zeros(15), ttoSp |-> 0,
     nida |-> 6, seyo |-> 2, ndeyo |-> 1, geodeunyo |-> 1, jiyo |-> 1, rago |-> 0,
     geos |-> 0, bold |-> 3, ordinal |-> 0, faq |-> 2, advice |-> 1, personal |-> 2,
     excl |-> 2, exclRuns |-> 2, paras |-> <<30, 60, 15, 70>>, maxStart |-> 1,
     sections |-> <<2, 0, 3>>]

\* only the personal-marker rule triggers (score 95)
ImpersonalBody == [CleanBody EXCEPT !.personal = 0]

\* "nida" 20 of 22 endings, exactly 3 FAQ, 16 bold spans, no personal marker
AiBody ==
    [CleanBody EXCEPT !.personal = 0, !.faq = 3, !.bold = 16,
                      !.nida = 20, !.seyo = 1, !.ndeyo = 1,
                      !.geodeunyo = 0, !.jiyo = 0]

\* like AiBody with a cliche instead of the ending monotony, and 40 '!' in
\* 3 runs: the quick fix removes the exclamation issue and 37 characters
ShoutingBody ==
    [CleanBody EXCEPT !.personal = 0, !.faq = 3, !.bold = 16, !.cliche = 1,
                      !.excl = 40, !.exclRuns = 3]

\* 7 "geos-imnida." endings and 3 advice phrases: the quick fix adds a
\* fourth advice phrase
EndingsBody ==
    [CleanBody EXCEPT !.geos = 7, !.nida = 9, !.advice = 3]

\* the first connector 6 times, and direct phrases: score 79
ConnectorBody ==
    [CleanBody EXCEPT !.connectors = [Zeros(15) EXCEPT ![1] = 6, ![2] = 2, ![3] = 2],
                      !.ttoSp = 6, !.personal = 0,
                      !.phrases = [Zeros(9) EXCEPT ![1] = 1, ![5] = 2]]

\* without the keyword, the link and the table: nothing to preserve
BareBody ==
    [AiBody EXCEPT !.kw = 0, !.kwVar = 0, !.link = FALSE, !.tables = 0]

Bodies == {CleanBody, ImpersonalBody, AiBody, ShoutingBody, EndingsBody,
           ConnectorBody, BareBody}

\* keywords: empty, shorter than 4 characters, 4 characters or more
Keywords == {[len |-> 0], [len |-> 2], [len |-> 5]}

\* What the rewrite collaborator can answer for the text `f` it was given:
\* any combination of length, keyword, link, table and style changes.
Ceil(a, b) == (a + b - 1) \div b

CandidateLens(f) ==
    {Ceil(7 * f.len, 10) - 1, Ceil(7 * f.len, 10), f.len,
     (14 * f.len) \div 10, (14 * f.len) \div 10 + 1}

\* style of the answer: the issues removed, unchanged, or a cliche added
Restyled(f, style) ==
    IF style = "better" THEN
        [f EXCEPT !.cliche = 0, !.phrases = Zeros(9), !.connectors = Zeros(15),
                  !.ttoSp = 0, !.nida = 6, !.seyo = 3, !.bold = 3, !.faq = 2,
                  !.personal = 1, !.excl = 1, !.exclRuns = 1, !.advice = 1]
    ELSE IF style = "worse" THEN [f EXCEPT !.cliche = @ + 2]
    ELSE f

Candidates(f) ==
    {[Restyled(f, style) EXCEPT !.len = l, !.kw = k, !.kwVar = v,
                               !.link = ln, !.tables = t] :
        style \in {"better", "same", "worse"},
        l \in CandidateLens(f),
        k \in {Max2(0, Ceil(3 * f.kw, 10) - 1), Ceil(3 * f.kw, 10), f.kw},
        v \in {Max2(0, Ceil(f.kw, 2) - 1), Ceil(f.kw, 2)},
        ln \in {f.link, FALSE},
        t \in {f.tables \div 5, Max2(0, Ceil(f.tables, 2) - 1),
               Ceil(f.tables, 2), f.tables}}

----------------------------------------------------------------------------
(* posting_history queries of AntiDetection *)

Successes(h) == {i \in DOMAIN h : h[i].status = "success"}

\* DATE(x): the calendar date of a time value.
DateOf(t) == t \div HoursPerDay
HourOf(t) == t % HoursPerDay

\* SQLite 'now' is UTC.
UtcNow(t, off) == t - off

\* Text forms that the weekly query compares.  published_at is
\* datetime.now().isoformat() = 'YYYY-MM-DDTHH:..', datetime('now','-7 days')
\* is 'YYYY-MM-DD HH:MM:SS': date, separator (character code), time of day.
IsoFormat(t) == <<DateOf(t), 84, HourOf(t)>>
SqliteDatetime(t) == <<DateOf(t), 32, HourOf(t)>>

\* a >= b for the two texts (both have the same date width).
TextGeq(a, b) ==
    \/ a[1] > b[1]
    \/ a[1] = b[1] /\ a[2] > b[2]
    \/ a[1] = b[1] /\ a[2] = b[2] /\ a[3] >= b[3]

\* SELECT published_at ... WHERE publish_status = 'success'
\* ORDER BY published_at DESC LIMIT 1
QueryLastSuccess(h) ==
    IF Successes(h) = {} THEN <<>>
    ELSE <<Max({h[i].at : i \in Successes(h)})>>

\* SELECT COUNT(*) ... AND DATE(published_at) = DATE('now')
QueryDailyCount(h, t, off) ==
    Cardinality({i \in Successes(h) : DateOf(h[i].at) = DateOf(UtcNow(t, off))})

\* SELECT COUNT(*) ... AND published_at >= datetime('now', '-7 days')
QueryWeeklyCount(h, t, off) ==
    Cardinality({i \in Successes(h) :
        TextGeq(IsoFormat(h[i].at),
                SqliteDatetime(UtcNow(t, off) - DaysPerWeek * HoursPerDay))})

\* qf: the queries that raise when executed ("interval", "daily", "weekly").
check_interval_failclosed(h, t, qf) ==
    IF "interval" \in qf THEN FALSE
    ELSE LET result == QueryLastSuccess(h) IN
         IF result = <<>> THEN TRUE
         ELSE t - result[1] >= MIN_INTERVAL_HOURS

check_interval(h, t, qf) ==
    IF "interval" \in qf THEN TRUE
    ELSE LET result == QueryLastSuccess(h) IN
         IF result = <<>> THEN TRUE
         ELSE t - result[1] >= MIN_INTERVAL_HOURS

check_daily_limit(h, t, off, qf) ==
    IF "daily" \in qf THEN TRUE
    ELSE QueryDailyCount(h, t, off) < MAX_POSTS_PER_DAY

check_weekly_limit(h, t, off, qf) ==
    IF "weekly" \in qf THEN TRUE
    ELSE QueryWeeklyCount(h, t, off) < MAX_POSTS_PER_WEEK

can_publish(h, t, off, qf) ==
    IF ~check_interval(h, t, qf) THEN [ok |-> FALSE, reason |-> "interval"]
    ELSE IF ~check_daily_limit(h, t, off, qf) THEN [ok |-> FALSE, reason |-> "daily"]
    ELSE IF ~check_weekly_limit(h, t, off, qf) THEN [ok |-> FALSE, reason |-> "weekly"]
    ELSE [ok |-> TRUE, reason |-> "ok"]


----------------------------------------------------------------------------
(* posts: the columns the publish paths read.  publish_category, seo_score *)
(* and body are fixed per post here; status changes.                       *)

\* settings.PUBLISH_CATEGORY_ORDER, settings.POSTS_PER_CATEGORY_ROTATE
PUBLISH_CATEGORY_ORDER == <<"contract", "budget", "service">>
POSTS_PER_CATEGORY_ROTATE == 5

\* a text that many rules flag (score 48)
LowBody ==
    [CleanBody EXCEPT !.cliche = 5, !.nida = 20, !.seyo = 1, !.ndeyo = 1,
                      !.geodeunyo = 0, !.jiyo = 0, !.bold = 16, !.faq = 3,
                      !.personal = 0, !.ordinal = 3,
                      !.connectors = [Zeros(15) EXCEPT ![2] = 2, ![3] = 2, ![4] = 3]]

PostCategory(p) == PUBLISH_CATEGORY_ORDER[(p % Len(PUBLISH_CATEGORY_ORDER)) + 1]
PostSeo(p) == 60 + 10 * p
PostBody(p) == IF p % 2 = 1 THEN AiBody ELSE LowBody

Counted(st) == {p \in DOMAIN st : st[p] \in {"published", "approved"}}

\* Python's // and % (floor division, remainder with the divisor's sign)
FloorDiv(a, b) == IF b > 0 THEN a \div b ELSE (-a) \div (-b)
PyMod(a, b) == a - b * FloorDiv(a, b)

\* the first position of order whose category has count < rotate_count, 0 if none
FirstUnder(count, order, rotate_count) ==
    LET under == {i \in DOMAIN order : count[order[i]] < rotate_count}
    IN IF under = {} THEN 0 ELSE CHOOSE i \in under : \A j \in under : i <= j

current_publish_category_leq(count, total_published, order, rotate_count) ==
    LET first == FirstUnder(count, order, rotate_count + 1)
    IN IF first # 0 THEN order[first]
       ELSE LET total_per_round == rotate_count * Len(order)
            IN IF total_per_round = 0 THEN order[1]
               ELSE LET position_in_round == PyMod(total_published, total_per_round)
                        category_index == FloorDiv(position_in_round, rotate_count)
                    IN order[IF category_index <= Len(order) - 1
                             THEN category_index + 1 ELSE Len(order)]

\* the body of _get_current_publish_category over the two kinds of count it
\* reads: count[c] per category of the order, total_published over all posts
current_publish_category(count, total_published, order, rotate_count) ==
    LET first == FirstUnder(count, order, rotate_count)
    IN IF first # 0 THEN order[first]
       ELSE LET total_per_round == rotate_count * Len(order)
            IN IF total_per_round = 0 THEN order[1]
               ELSE LET position_in_round == PyMod(total_published, total_per_round)
                        category_index == FloorDiv(position_in_round, rotate_count)
                    IN order[IF category_index <= Len(order) - 1
                             THEN category_index + 1 ELSE Len(order)]

get_current_publish_category(st) ==
    current_publish_category(
        [c \in {PUBLISH_CATEGORY_ORDER[i] : i \in DOMAIN PUBLISH_CATEGORY_ORDER} |->
            Cardinality({p \in Counted(st) : PostCategory(p) = c})],
        Cardinality(Counted(st)),
        PUBLISH_CATEGORY_ORDER, POSTS_PER_CATEGORY_ROTATE)

\* SELECT ... WHERE status = 'approved' AND publish_category = ?
\* ORDER BY seo_score DESC LIMIT 1, else the same over all categories
SelectPosts(st) ==
    LET approved == {p \in DOMAIN st : st[p] = "approved"}
        inCat == {p \in approved : PostCategory(p) = get_current_publish_category(st)}
        pool == IF inCat # {} THEN inCat ELSE approved
    IN {p \in pool : \A q \in pool : PostSeo(q) <= PostSeo(p)}

----------------------------------------------------------------------------
(* publish attempts *)

IdleAttempt ==
    [pc |-> "idle", kind |-> "none", gate |-> "none", reason |-> "none",
     qfail |-> {}, gate_at |-> 0, gate_seen |-> 0, post |-> 0, result |-> "none",
     row |-> 0]

Queries == {"interval", "daily", "weekly"}

\* the verdict of the gate in cmd_publish: skipped with --force
GateVerdict(force, h, t, off, qf) ==
    IF force THEN [gate |-> "skipped", reason |-> "force"]
    ELSE LET r == can_publish(h, t, off, qf) IN
         [gate |-> IF r.ok THEN "permit" ELSE "deny", reason |-> r.reason]

\* the pre-publish human review of cmd_publish stops below 50 points
ReviewBlocks(p, skip_review) ==
    ~skip_review /\ detect_ai_patterns(PostBody(p)).score < 50

\* main.py cmd_publish up to the call of the poster
CmdPublish(a, force, skip_review, qf) ==
    /\ att[a].pc = "idle"
    /\ force => qf = {}
    /\ LET v == GateVerdict(force, history, now, tz, qf)
           sel == SelectPosts(post_status)
       IN \E p \in (IF sel = {} THEN {0} ELSE sel) :
            att' = [att EXCEPT ![a] =
                [pc |-> IF v.gate = "deny" \/ p = 0 \/ ReviewBlocks(p, skip_review)
                        THEN "done" ELSE "posting",
                 kind |-> "cli", gate |-> v.gate, reason |-> v.reason,
                 qfail |-> qf, gate_at |-> now, gate_seen |-> Len(history),
                 post |-> IF v.gate = "deny" THEN 0 ELSE p,
                 result |-> "none", row |-> 0]]
    /\ UNCHANGED <<now, tz, ticks, history, post_status, hz, rv, contentVars>>

\* app/routes/api.py publish_post up to the start of the publishing thread
PublishPost(a, p) ==
    /\ att[a].pc = "idle"
    /\ att' = [att EXCEPT ![a] =
           [IdleAttempt EXCEPT !.pc = IF post_status[p] # "approved"
                                     THEN "done" ELSE "posting",
                               !.kind = "api", !.post = p,
                               !.gate_at = now, !.gate_seen = Len(history)]]
    /\ UNCHANGED <<now, tz, ticks, history, post_status, hz, rv, contentVars>>

\* NaverBlogPoster.publish: writes the post, then records the outcome with
\* published_at = datetime.now()
PosterPublish(a, ok) ==
    /\ att[a].pc = "posting"
    /\ history' = Append(history,
           [post |-> att[a].post,
            status |-> IF ok THEN "success" ELSE "failed",
            at |-> now])
    /\ att' = [att EXCEPT ![a].pc = IF ok THEN "update" ELSE "done",
                          ![a].result = IF ok THEN "success" ELSE "failed",
                          ![a].row = Len(history) + 1]
    /\ UNCHANGED <<now, tz, ticks, post_status, hz, rv, contentVars>>

\* UPDATE posts SET status = 'published' after a successful publish
UpdateStatus(a) ==
    /\ att[a].pc = "update"
    /\ post_status' = [post_status EXCEPT ![att[a].post] = "published"]
    /\ att' = [att EXCEPT ![a].pc = "done"]
    /\ UNCHANGED <<now, tz, ticks, history, hz, rv, contentVars>>

\* the wall clock advances
Tick ==
    /\ ticks < MaxTicks
    /\ now' = now + 1
    /\ ticks' = ticks + 1
    /\ UNCHANGED <<tz, history, post_status, att, hz, rv, contentVars>>

----------------------------------------------------------------------------
(* one invocation of review_and_fix, split at the blocking rewrite call *)

HzStart(b, keyword, force) ==
    [pc |-> "start", body |-> b, keyword |-> keyword, force_rewrite |-> force,
     review |-> NewReview, fixed_body |-> b, calls |-> 0, hb |-> "none",
     candidate |-> <<>>, out |-> <<>>]

\* lines 500-510 and, when no call is made, up to the return
ReviewStart ==
    /\ hz.pc = "start"
    /\ LET review == detect_ai_patterns(hz.body)
           fixed_body == quick_fix_patterns(hz.body)
       IN IF ShouldRewrite(review, hz.force_rewrite)
          THEN IF CallsRewriter(review)
               THEN hz' = [hz EXCEPT !.pc = "calling", !.review = review,
                                     !.fixed_body = fixed_body, !.calls = @ + 1]
               ELSE hz' = [hz EXCEPT !.pc = "done", !.review = review,
                                     !.fixed_body = fixed_body, !.hb = "skipped",
                                     !.out = <<AfterRewrite(hz.body, review,
                                         humanize_body(fixed_body, hz.keyword, review,
                                                       [failed |-> TRUE]))>>]
          ELSE hz' = [hz EXCEPT !.pc = "done", !.review = review,
                                !.fixed_body = fixed_body,
                                !.out = <<[body |-> fixed_body, review |-> review]>>]
    /\ UNCHANGED <<now, tz, ticks, history, post_status, att, rv, contentVars>>

\* the API call raises (error, timeout): humanize_body's except branch
RewriterFails ==
    /\ hz.pc = "calling"
    /\ hz' = [hz EXCEPT !.pc = "done", !.hb = "failed",
                        !.out = <<AfterRewrite(hz.body, hz.review,
                            humanize_body(hz.fixed_body, hz.keyword, hz.review,
                                          [failed |-> TRUE]))>>]
    /\ UNCHANGED <<now, tz, ticks, history, post_status, att, rv, contentVars>>

\* the API call answers with a rewritten text c
RewriterReturns(c) ==
    /\ hz.pc = "calling"
    /\ hz' = [hz EXCEPT !.pc = "done",
                        !.hb = IF RewriteValid(hz.fixed_body, c, hz.keyword)
                               THEN "accepted" ELSE "rejected",
                        !.candidate = <<c>>,
                        !.out = <<AfterRewrite(hz.body, hz.review,
                            humanize_body(hz.fixed_body, hz.keyword, hz.review,
                                          [failed |-> FALSE, body |-> c]))>>]
    /\ UNCHANGED <<now, tz, ticks, history, post_status, att, rv, contentVars>>

----------------------------------------------------------------------------
(* a HumanReviewResult receiving add_issue calls *)

SeveritySamples == {1, 7, 10}

AddIssue(sev) ==
    /\ Len(rv.issues) < MaxIssues
    /\ rv' = add_issue(rv, "issue", sev)
    /\ UNCHANGED <<now, tz, ticks, history, post_status, att, hz, contentVars>>

----------------------------------------------------------------------------
(* initial states *)

TzOffsets == {0, 9}
StartTimes == {10 * HoursPerDay + 2, 10 * HoursPerDay + 12}

\* ages (hours before the start) of earlier successful publishes
PastAges == {3, 4, 8, 30, 54, 78, 169}

RECURSIVE HistoryOf(_, _)
HistoryOf(ages, start) ==
    IF ages = {} THEN <<>>
    ELSE LET m == Max(ages) IN
         <<[post |-> 0, status |-> "success", at |-> start - m]>>
         \o HistoryOf(ages \ {m}, start)

FailedRow(start) == [post |-> 0, status |-> "failed", at |-> start - 1]

InitHistories(start, maxLen) ==
    {HistoryOf(ages, start) \o tail :
        ages \in {A \in SUBSET PastAges : Cardinality(A) <= maxLen},
        tail \in {<<>>, <<FailedRow(start)>>}}

\* no review_and_fix invocation in this run
HzOff == [pc |-> "off"]

\* no content operation in this run, an empty post store
Off == [pc |-> "off"]

ContentOff ==
    /\ rot = Off /\ sched = Off /\ seo = Off /\ gen = Off /\ det = Off
    /\ posts = <<>>
    /\ legal_references = {}

InitOther ==
    /\ hz = HzOff
    /\ rv = NewReview
    /\ ContentOff

InitGate(procs, maxLen) ==
    /\ tz \in TzOffsets
    /\ now \in StartTimes
    /\ ticks = 0
    /\ history \in InitHistories(now, maxLen)
    /\ post_status \in [Posts -> {"draft", "approved"}]
    /\ att = [a \in procs |-> IdleAttempt]

\* query failures are explored for a single attempt; with concurrent
\* attempts the history store answers every query
FaultSets == IF Cardinality(DOMAIN att) = 1 THEN SUBSET Queries ELSE {{}}

NextGate ==
    \/ \E a \in DOMAIN att, force \in BOOLEAN, skip_review \in BOOLEAN,
          qf \in FaultSets : CmdPublish(a, force, skip_review, qf)
    \/ \E a \in DOMAIN att, p \in Posts : PublishPost(a, p)
    \/ \E a \in DOMAIN att, ok \in BOOLEAN : PosterPublish(a, ok)
    \/ \E a \in DOMAIN att : UpdateStatus(a)
    \/ Tick

\* one publish attempt at a time
Init == InitGate({1}, MaxInitHist) /\ InitOther
Spec == Init /\ [][NextGate]_vars

\* two concurrent publish attempts (two processes / request threads)
InitConc == InitGate(Attempts, 1) /\ InitOther
SpecConc == InitConc /\ [][NextGate]_vars

InitHumanizer ==
    /\ \E b \in Bodies, keyword \in Keywords, force \in BOOLEAN :
          hz = HzStart(b, keyword, force)
    /\ rv = NewReview
    /\ now = 0 /\ tz = 0 /\ ticks = 0 /\ history = <<>>
    /\ post_status = [p \in Posts |-> "draft"]
    /\ att = [a \in {1} |-> IdleAttempt]
    /\ ContentOff

NextHumanizer ==
    \/ ReviewStart
    \/ RewriterFails
    \/ \E c \in Candidates(hz.fixed_body) : RewriterReturns(c)

SpecHumanizer == InitHumanizer /\ [][NextHumanizer]_vars

InitReview ==
    /\ rv = NewReview
    /\ hz = HzOff
    /\ now = 0 /\ tz = 0 /\ ticks = 0 /\ history = <<>>
    /\ post_status = [p \in Posts |-> "draft"]
    /\ att = [a \in {1} |-> IdleAttempt]
    /\ ContentOff

NextReview == \E sev \in SeveritySamples : AddIssue(sev)

SpecReview == InitReview /\ [][NextReview]_vars


----------------------------------------------------------------------------
(* Claims about the publish gate *)

\* what an attempt's gate saw: the history rows present at its decision
SeenBy(a) == SubSeq(history, 1, att[a].gate_seen)

Decided(a) == att[a].kind = "cli" /\ att[a].gate \in {"permit", "deny"}

\* the three conditions as the specification states them, on the local
\* clock that wrote the rows
IntervalMet(h, t) ==
    Successes(h) = {} \/ t - Max({h[i].at : i \in Successes(h)}) >= MIN_INTERVAL_HOURS
TodayCount(h, t) ==
    Cardinality({i \in Successes(h) : DateOf(h[i].at) = DateOf(t)})
TrailingWeekCount(h, t) ==
    Cardinality({i \in Successes(h) : t - h[i].at <= DaysPerWeek * HoursPerDay})
RateLimitsMet(h, t) ==
    /\ IntervalMet(h, t)
    /\ TodayCount(h, t) < MAX_POSTS_PER_DAY
    /\ TrailingWeekCount(h, t) < MAX_POSTS_PER_WEEK

\* C1: when the history queries succeed, can_publish() returns true if and
\* only if the minimum interval has passed since the last success (or there
\* is none), fewer than max_posts_per_day successes happened today and fewer
\* than max_posts_per_week in the trailing 7 days.
C1_CanPublishIffLimits ==
    \A a \in DOMAIN att :
        (Decided(a) /\ att[a].qfail = {})
        => ((att[a].gate = "permit") <=> RateLimitsMet(SeenBy(a), att[a].gate_at))

\* C2: every call of the poster is preceded, in the same attempt, by a gate
\* decision that returned true.
PosterCalled(a) == att[a].pc \in {"posting", "update"} \/ att[a].result # "none"

C2_PosterOnlyAfterPermit ==
    \A a \in DOMAIN att : PosterCalled(a) => att[a].gate = "permit"

\* C9: the gate is fail-open: a check whose query raises counts as passed,
\* so a refusal is never due to a failed query, and when all three queries
\* fail can_publish returns true.
C9_GateFailOpen ==
    \A a \in DOMAIN att :
        Decided(a) =>
            /\ att[a].gate = "deny" => att[a].reason \notin att[a].qfail
            /\ att[a].qfail = Queries => att[a].gate = "permit"

\* all queries failed and the gate permitted although the history seen
\* would have refused the publish
C9_Witness ==
    \E a \in DOMAIN att :
        /\ Decided(a) /\ att[a].qfail = Queries /\ att[a].gate = "permit"
        /\ ~IntervalMet(SeenBy(a), att[a].gate_at)

\* C10: two concurrent attempts never both pass the gate and then publish
\* closer together than the minimum interval or beyond the daily maximum.
PermittedSuccess(a) == att[a].gate = "permit" /\ att[a].result = "success"

Dist(x, y) == IF x >= y THEN x - y ELSE y - x

C10_NoConcurrentOverrun ==
    \A a, b \in DOMAIN att :
        (a # b /\ PermittedSuccess(a) /\ PermittedSuccess(b)) =>
            /\ Dist(history[att[a].row].at, history[att[b].row].at) >= MIN_INTERVAL_HOURS
            /\ TodayCount(history, history[att[a].row].at) <= MAX_POSTS_PER_DAY


----------------------------------------------------------------------------
(* Claims about HumanReviewResult and review_and_fix *)

RECURSIVE SumSeverity(_)
SumSeverity(issues) ==
    IF issues = <<>> THEN 0 ELSE Head(issues).severity + SumSeverity(Tail(issues))

\* C5: after any sequence of add_issue calls the score is
\* max(0, 100 - sum of the severities), within 0..100, and needs_rewrite
\* holds exactly when the score is below 80 (the severities sum to over 20).
C5_ScoreInvariant ==
    /\ rv.score = Max2(0, 100 - SumSeverity(rv.issues))
    /\ rv.score >= 0 /\ rv.score <= 100
    /\ needs_rewrite(rv) <=> SumSeverity(rv.issues) > 20

\* the floor at 0 is in effect
C5_Witness == SumSeverity(rv.issues) > 100 /\ rv.score = 0 /\ needs_rewrite(rv)

Done == hz.pc = "done"
Out == hz.out[1]
InputScore == detect_ai_patterns(hz.body).score
Candidate == hz.candidate[1]
Answered == Done /\ hz.candidate # <<>>

\* C3: the review returned by review_and_fix never scores below the
\* detection result of the input body, whatever the rewriter answers.
C3_NeverDegrades == Done => Out.review.score >= InputScore

\* a valid rewrite that scores lower than the input was handed back
C3_Witness ==
    /\ Answered /\ hz.hb = "accepted"
    /\ detect_ai_patterns(Candidate).score < InputScore
    /\ Out.review.score = InputScore

\* the preservation conditions of a rewritten text c against a reference o
WithinLength(o, c) == 10 * c.len >= 7 * o.len /\ 10 * c.len <= 14 * o.len
KeepsKeyword(o, c, keyword) ==
    (keyword.len > 0 /\ o.kw > 0) =>
        \/ 10 * c.kw >= 3 * o.kw
        \/ 2 * (IF keyword.len >= 4 THEN c.kwVar ELSE c.kw) >= o.kw
KeepsLink(o, c) == o.link => c.link
KeepsTables(o, c) == o.tables >= 1 => 2 * c.tables >= o.tables
Preserves(o, c, keyword) ==
    /\ WithinLength(o, c)
    /\ KeepsKeyword(o, c, keyword)
    /\ KeepsLink(o, c)
    /\ KeepsTables(o, c)

\* the rewritten text is what review_and_fix returned
CandidateReturned == Answered /\ Out.review.rewritten_body = <<Candidate>>

\* C4 as stated: a rewrite candidate is returned only if it satisfies the
\* four preservation conditions relative to the original (input) body.
C4_PreservesOriginal ==
    CandidateReturned => Preserves(hz.body, Candidate, hz.keyword)

\* C4 as amended: a rewrite candidate is returned only if it satisfies the
\* four preservation conditions relative to the quick-fixed body that was
\* handed to the rewriter; a candidate that lost 80% of the table rows is
\* not returned and the final body has the table rows of the input.
C4_PreservesRewriterInput ==
    /\ CandidateReturned => Preserves(hz.fixed_body, Candidate, hz.keyword)
    /\ (Answered /\ hz.body.tables >= 1 /\ 5 * Candidate.tables <= hz.body.tables)
       => (Out.review.rewritten_body = <<>> \/ Out.body # Candidate)
          /\ Out.body.tables = hz.body.tables

\* a rewriter that deleted 80% of the rows of a 5-row table, otherwise fine
C4_Witness ==
    /\ Answered /\ hz.body.tables = 5 /\ Candidate.tables = 1
    /\ detect_ai_patterns(Candidate).score > InputScore
    /\ WithinLength(hz.fixed_body, Candidate) /\ Candidate.link
    /\ Candidate.kw = hz.body.kw
    /\ Out.body.tables = 5

\* C6: the rewritten text is kept only if its score strictly exceeds the
\* score detected before the rewrite; a candidate scoring equal or lower is
\* never returned.
C6_KeptOnlyIfStrictlyBetter ==
    /\ CandidateReturned => detect_ai_patterns(Candidate).score > InputScore
    /\ (Answered /\ hz.hb = "accepted"
        /\ detect_ai_patterns(Candidate).score <= InputScore)
       => Out = [body |-> hz.body, review |-> detect_ai_patterns(hz.body)]

\* a valid rewrite with exactly the input's score was discarded
C6_Witness ==
    /\ Answered /\ hz.hb = "accepted"
    /\ detect_ai_patterns(Candidate).score = InputScore
    /\ Candidate # hz.body
    /\ Out.body = hz.body

\* C7: review_and_fix makes at most one call to the rewrite collaborator,
\* and none when the input does not need a rewrite and force_rewrite is off.
C7_AtMostOneCall ==
    /\ hz.calls <= 1
    /\ (hz.pc # "start" /\ InputScore >= 80 /\ ~hz.force_rewrite) => hz.calls = 0

\* a finished invocation that made its one call, and one that made none
C7_Witness == Done /\ hz.calls = 1 /\ hz.hb \in {"accepted", "rejected", "failed"}

\* C8 as stated: when the rewrite call fails, the returned review's score
\* equals the score detected on the input.
C8_FailureKeepsScore ==
    (Done /\ hz.hb = "failed") => Out.review.score = InputScore

\* C8 as amended: when the rewrite call fails, review_and_fix returns the
\* input body with the input's review, unless the quick-fixed body alone
\* scores strictly higher than the input: then it returns the quick-fixed
\* body with that body's review.
C8_FailureReturnsInputOrQuickFix ==
    (Done /\ hz.hb = "failed") =>
        LET q == quick_fix_patterns(hz.body)
            qr == detect_ai_patterns(q)
        IN \/ Out = [body |-> hz.body, review |-> detect_ai_patterns(hz.body)]
           \/ /\ qr.score > InputScore
              /\ Out.body = q
              /\ Out.review.score = qr.score

\* a failed call after which the quick-fixed body was returned
C8_Witness ==
    /\ Done /\ hz.hb = "failed"
    /\ Out.body = quick_fix_patterns(hz.body) /\ Out.body # hz.body
    /\ Out.review.score > InputScore

----------------------------------------------------------------------------
(* category rotation: _get_current_publish_category as a function of the   *)
(* counts it reads                                                          *)

MaxCount == 6

Categories == {PUBLISH_CATEGORY_ORDER[i] : i \in DOMAIN PUBLISH_CATEGORY_ORDER}

\* configured values of POSTS_PER_CATEGORY_ROTATE, malformed ones included
Quotas == {-5, -1, 0, 2, POSTS_PER_CATEGORY_ROTATE}

\* published or approved posts whose publish_category is outside the order
OtherCounts == {0, 7}

SumCounts(count) == SumSeq([i \in DOMAIN PUBLISH_CATEGORY_ORDER |->
                               count[PUBLISH_CATEGORY_ORDER[i]]])

\* one call; db.count raising is the only way out by exception
GetCurrentPublishCategory(dbfail) ==
    /\ rot.pc = "ready"
    /\ rot' = IF dbfail
              THEN [rot EXCEPT !.pc = "done", !.raised = TRUE]
              ELSE [rot EXCEPT !.pc = "done",
                      !.result = current_publish_category(rot.count,
                                     SumCounts(rot.count) + rot.other,
                                     PUBLISH_CATEGORY_ORDER, rot.quota)]
    /\ UNCHANGED <<now, tz, ticks, history, post_status, att, hz, rv,
                   sched, seo, posts, legal_references, gen, det>>

IdleGate ==
    /\ now = 0 /\ tz = 0 /\ ticks = 0 /\ history = <<>>
    /\ post_status = [p \in Posts |-> "draft"]
    /\ att = [a \in {1} |-> IdleAttempt]
    /\ hz = HzOff
    /\ rv = NewReview

InitRotation ==
    /\ \E count \in [Categories -> 0..MaxCount], other \in OtherCounts,
          quota \in Quotas :
          rot = [pc |-> "ready", count |-> count, other |-> other,
                 quota |-> quota, raised |-> FALSE, result |-> "none"]
    /\ IdleGate
    /\ sched = Off /\ seo = Off /\ gen = Off /\ det = Off
    /\ posts = <<>> /\ legal_references = {}

NextRotation == \E dbfail \in BOOLEAN : GetCurrentPublishCategory(dbfail)

SpecRotation == InitRotation /\ [][NextRotation]_vars

Returned == rot.pc = "done" /\ ~rot.raised

\* the rule as the specification words it
RotationRule(count, total, order, quota) ==
    IF \E i \in DOMAIN order : count[order[i]] < quota
    THEN order[CHOOSE i \in DOMAIN order :
                 /\ count[order[i]] < quota
                 /\ \A j \in 1..(i - 1) : count[order[j]] >= quota]
    ELSE order[((total % (quota * Len(order))) \div quota) + 1]

C12_MalformedQuotaRaises ==
    (rot.pc = "done" /\ rot.quota <= 0) => rot.raised

----------------------------------------------------------------------------
(* next publish time: AntiDetection.get_next_publish_time.  Times here are *)
(* minutes on the local clock, since the jitter is drawn in minutes.       *)

PREFERRED_HOURS == <<9, 15, 20>>
MinutesPerHour == 60

\* configured lists of preferred hours, the empty one included
PreferredLists == {PREFERRED_HOURS, <<15, 9, 20>>, <<12>>, <<>>}

\* values of random.gauss(0, 30), rounded to minutes
DelaySamples == {-150, -61, -30, 0, 29, 60, 185}

Abs(x) == IF x < 0 THEN -x ELSE x

\* datetime.hour, and datetime.replace(hour = h, minute = 0, second = 0)
HourOfMinutes(t) == (t \div MinutesPerHour) % HoursPerDay
ReplaceHour(t, h) ==
    (t \div (MinutesPerHour * HoursPerDay)) * MinutesPerHour * HoursPerDay
        + h * MinutesPerHour

ClosestHour_last(preferred, hour) ==
    preferred[CHOOSE i \in DOMAIN preferred :
        /\ \A j \in DOMAIN preferred :
              Abs(preferred[i] - hour) <= Abs(preferred[j] - hour)
        /\ \A j \in DOMAIN preferred :
              Abs(preferred[j] - hour) = Abs(preferred[i] - hour) => j <= i]

\* min(preferred_hours, key = lambda x: abs(x - hour)): the first minimum
ClosestHour(preferred, hour) ==
    preferred[CHOOSE i \in DOMAIN preferred :
        /\ \A j \in DOMAIN preferred :
              Abs(preferred[i] - hour) <= Abs(preferred[j] - hour)
        /\ \A j \in DOMAIN preferred :
              Abs(preferred[j] - hour) = Abs(preferred[i] - hour) => i <= j]

\* _add_gaussian_delay; min() of an empty list raises and the except branch
\* returns base_time
add_gaussian_delay(base_time, delay_minutes, preferred) ==
    LET result_time == base_time + delay_minutes
        hour == HourOfMinutes(result_time)
    IN IF \E i \in DOMAIN preferred : preferred[i] = hour
       THEN [time |-> result_time, perturbed |-> result_time, jittered |-> TRUE]
       ELSE IF preferred = <<>>
            THEN [time |-> base_time, perturbed |-> result_time, jittered |-> FALSE]
            ELSE [time |-> ReplaceHour(result_time, ClosestHour(preferred, hour)),
                  perturbed |-> result_time, jittered |-> TRUE]

\* get_next_publish_time; qfail: the history query raises
get_next_publish_time(h, t, delay_minutes, preferred, qfail) ==
    IF qfail
    THEN [time |-> (t + MIN_INTERVAL_HOURS) * MinutesPerHour,
          perturbed |-> (t + MIN_INTERVAL_HOURS) * MinutesPerHour,
          jittered |-> FALSE]
    ELSE LET result == QueryLastSuccess(h)
             base_time == IF result # <<>>
                          THEN (result[1] + MIN_INTERVAL_HOURS) * MinutesPerHour
                          ELSE (t + MIN_INTERVAL_HOURS) * MinutesPerHour
         IN add_gaussian_delay(base_time, delay_minutes, preferred)

GetNextPublishTime(delay_minutes, qfail) ==
    /\ sched.pc = "ready"
    /\ sched' = [sched EXCEPT !.pc = "done", !.qfail = qfail,
                     !.next = <<get_next_publish_time(history, now, delay_minutes,
                                                      sched.preferred, qfail)>>]
    /\ UNCHANGED <<now, tz, ticks, history, post_status, att, hz, rv,
                   rot, seo, posts, legal_references, gen, det>>

InitSchedule ==
    /\ tz \in TzOffsets
    /\ now \in StartTimes
    /\ ticks = 0
    /\ history \in InitHistories(now, 1)
    /\ post_status = [p \in Posts |-> "draft"]
    /\ att = [a \in {1} |-> IdleAttempt]
    /\ hz = HzOff /\ rv = NewReview
    /\ \E preferred \in PreferredLists :
          sched = [pc |-> "ready", preferred |-> preferred, qfail |-> FALSE,
                   next |-> <<>>]
    /\ rot = Off /\ seo = Off /\ gen = Off /\ det = Off
    /\ posts = <<>> /\ legal_references = {}

NextSchedule ==
    \/ \E delay_minutes \in DelaySamples, qfail \in BOOLEAN :
          GetNextPublishTime(delay_minutes, qfail)
    \/ Tick

SpecSchedule == InitSchedule /\ [][NextSchedule]_vars

Jittered == sched.pc = "done" /\ sched.next[1].jittered
InList(preferred, hour) == \E i \in DOMAIN preferred : preferred[i] = hour
SameDate(a, b) ==
    a \div (MinutesPerHour * HoursPerDay) = b \div (MinutesPerHour * HoursPerDay)

\* C13: once the jitter is applied the hour of the result is a preferred
\* hour: a perturbed time whose hour is preferred is returned unchanged,
\* otherwise its hour becomes the preferred hour at the smallest absolute
\* difference, the first such entry of the list on a tie, at minute 0.
C13_SnappedToPreferredHour ==
    Jittered =>
        LET n == sched.next[1]
            hour == HourOfMinutes(n.perturbed)
            pref == sched.preferred
        IN /\ InList(pref, HourOfMinutes(n.time))
           /\ InList(pref, hour) => n.time = n.perturbed
           /\ ~InList(pref, hour) =>
                 \E i \in DOMAIN pref :
                    /\ n.time = ReplaceHour(n.perturbed, pref[i])
                    /\ \A j \in DOMAIN pref :
                          Abs(pref[i] - hour) <= Abs(pref[j] - hour)
                    /\ \A j \in 1..(i - 1) :
                          Abs(pref[i] - hour) < Abs(pref[j] - hour)

\* hour 12 with [9, 15, 20]: both 9 and 15 are three hours away, 9 is taken
C13_Witness ==
    /\ Jittered
    /\ sched.preferred = PREFERRED_HOURS
    /\ HourOfMinutes(sched.next[1].perturbed) = 12
    /\ HourOfMinutes(sched.next[1].time) = 9

----------------------------------------------------------------------------
(* SEO scoring: SEOOptimizer.calculate_score and ContentEngine._review_seo. *)
(* A text is seen through the counts the scorers take from it:              *)
(*   len        characters                                                  *)
(*   words      whitespace-separated words left after the clean-up regex    *)
(*   kwWords    words that contain the keyword                              *)
(*   kw         occurrences of the keyword (str.count)                      *)
(*   cites      matches of the four citation patterns                       *)
(*   h2, h3     level-2 and level-3 headings                                *)
(*   tableRows  lines with at least three '|'                               *)
(*   faq        matches of the FAQ patterns                                 *)
(*   link       "silmu.kr" occurs                                           *)
(*   kwFirst100 the keyword occurs in the first 100 characters              *)
(*   sentence   first sentence: "none", "short" (<= 30 chars) or "long"     *)
(*   kwSentence the keyword occurs in the first sentence                    *)
(* A title is [len, hasKw]; a keyword is [len].  Densities are in           *)
(* hundredths of a percent (round(x, 2) keeps two decimals).                *)

\* round(n / d) to the nearest integer, ties to even
RoundDiv(n, d) ==
    LET q == n \div d
        r == n % d
    IN IF 2 * r > d \/ (2 * r = d /\ q % 2 = 1) THEN q + 1 ELSE q

Min2(a, b) == IF a < b THEN a ELSE b

\* Python's `keyword in text`: the empty string is in every text
Contains(flag, keyword) == keyword.len = 0 \/ flag

get_keyword_density(text, keyword) ==
    IF text.words = 0 THEN 0
    ELSE LET keyword_count == IF keyword.len = 0 THEN text.words ELSE text.kwWords
         IN RoundDiv(keyword_count * 10000, text.words)

check_auth_gr(body) ==
    IF body.cites >= 5 THEN 25
    ELSE IF body.cites >= 3 THEN 20
    ELSE IF body.cites >= 1 THEN 10
    ELSE 0

CRankScore(keyword_density) ==
    IF 150 <= keyword_density /\ keyword_density <= 250 THEN 25
    ELSE IF 100 <= keyword_density /\ keyword_density < 150 THEN 20
    ELSE IF 250 < keyword_density /\ keyword_density <= 300 THEN 20
    ELSE IF 50 <= keyword_density /\ keyword_density < 100 THEN 15
    ELSE IF 300 < keyword_density /\ keyword_density <= 350 THEN 15
    ELSE 5

check_c_rank(body, keyword) ==
    LET keyword_density == get_keyword_density(body, keyword)
    IN [score |-> CRankScore(keyword_density), keyword_density |-> keyword_density]

\* the heading pattern is not anchored: '### ' contains '## ' and counts too
check_dia_plus(body) ==
    LET h2_count == body.h2 + body.h3
        bonus_points ==
            (IF h2_count >= 3 THEN 15 ELSE IF h2_count >= 2 THEN 10
             ELSE IF h2_count >= 1 THEN 5 ELSE 0)
            + (IF body.tableRows > 0 THEN 5 ELSE 0)
            + (IF body.faq >= 3 THEN 5 ELSE 0)
    IN Min2(25, bonus_points)

AiBriefingPoints(title, body, keyword) ==
    (IF Contains(title.hasKw, keyword) THEN 10 ELSE 0)
    + (IF Contains(body.kwFirst100, keyword) THEN 15 ELSE 0)
    + (IF body.sentence = "long" /\ Contains(body.kwSentence, keyword)
       THEN 5 ELSE 0)

check_ai_briefing_nocap(title, body, keyword) ==
    AiBriefingPoints(title, body, keyword)

check_ai_briefing(title, body, keyword) ==
    Min2(25, AiBriefingPoints(title, body, keyword))

DensityLevel(keyword_density) ==
    IF keyword_density < 150 THEN "low"
    ELSE IF keyword_density <= 250 THEN "optimal"
    ELSE "high"

calculate_score(title, body, keyword) ==
    LET auth_gr_score == check_auth_gr(body)
        c_rank == check_c_rank(body, keyword)
        dia_plus_score == check_dia_plus(body)
        ai_briefing_score == check_ai_briefing(title, body, keyword)
        total_score == auth_gr_score + c_rank.score + dia_plus_score
                       + ai_briefing_score
    IN [total_score |-> Min2(100, total_score),
        auth_gr_score |-> auth_gr_score,
        c_rank_score |-> c_rank.score,
        dia_plus_score |-> dia_plus_score,
        ai_briefing_score |-> ai_briefing_score,
        keyword_density |-> c_rank.keyword_density,
        keyword_density_level |-> DensityLevel(c_rank.keyword_density)]

\* input texts of the scorer
EmptyText ==
    [len |-> 0, words |-> 0, kwWords |-> 0, kw |-> 0, cites |-> 0, h2 |-> 0,
     h3 |-> 0, tableRows |-> 0, faq |-> 0, link |-> FALSE, kwFirst100 |-> FALSE,
     sentence |-> "none", kwSentence |-> FALSE]

GoodText ==
    [len |-> 2000, words |-> 400, kwWords |-> 8, kw |-> 10, cites |-> 5, h2 |-> 3,
     h3 |-> 0, tableRows |-> 3, faq |-> 3, link |-> TRUE, kwFirst100 |-> TRUE,
     sentence |-> "long", kwSentence |-> TRUE]

\* a short text of 7 words: densities that need rounding
ShortText ==
    [GoodText EXCEPT !.len = 30, !.words = 7, !.kwWords = 1, !.kw = 1,
                     !.cites = 0, !.h2 = 0, !.tableRows = 0, !.faq = 0,
                     !.sentence = "short"]

KwWordCounts == {0, 1, 2, 4, 6, 8, 10, 12, 14, 16}

SeoTexts ==
    {EmptyText, ShortText}
    \cup {[GoodText EXCEPT !.kwWords = k, !.kw = k + extra, !.cites = c,
                           !.h2 = h, !.h3 = 3 - h,
                           !.kwFirst100 = (k > 0 /\ first),
                           !.kwSentence = (k > 0 /\ first)] :
            k \in KwWordCounts, extra \in {0, 2}, c \in {0, 1, 3, 5},
            h \in {0, 3}, first \in BOOLEAN}
    \cup {[GoodText EXCEPT !.h2 = h, !.h3 = 0, !.tableRows = t, !.faq = f,
                           !.sentence = st] :
            h \in 0..3, t \in {0, 3}, f \in {2, 3},
            st \in {"short", "long"}}

SeoTitles == {[len |-> 0, hasKw |-> FALSE], [len |-> 20, hasKw |-> FALSE],
              [len |-> 20, hasKw |-> TRUE]}

\* what can be passed together: an empty title or text contains no
\* non-empty keyword
SeoInputOk(title, body, keyword) ==
    /\ title.len = 0 => ~title.hasKw
    /\ keyword.len = 0 => (~title.hasKw /\ body.kw = 0 /\ body.kwWords = 0)

CalculateScore ==
    /\ seo.pc = "ready"
    /\ seo' = [seo EXCEPT !.pc = "done",
                   !.result = <<calculate_score(seo.title, seo.body, seo.keyword)>>]
    /\ UNCHANGED <<now, tz, ticks, history, post_status, att, hz, rv,
                   rot, sched, posts, legal_references, gen, det>>

InitSeo ==
    /\ \E title \in SeoTitles, body \in SeoTexts, keyword \in Keywords :
          /\ SeoInputOk(title, body, keyword)
          /\ seo = [pc |-> "ready", title |-> title, body |-> body,
                    keyword |-> keyword, result |-> <<>>]
    /\ IdleGate
    /\ rot = Off /\ sched = Off /\ gen = Off /\ det = Off
    /\ posts = <<>> /\ legal_references = {}

NextSeo == CalculateScore

SpecSeo == InitSeo /\ [][NextSeo]_vars

Scored == seo.pc = "done"
Score == seo.result[1]

\* (occurrences x keyword length) / total length x 100, two decimals
OccurrenceDensity(body, keyword) ==
    IF body.len = 0 THEN 0
    ELSE RoundDiv(body.kw * keyword.len * 10000, body.len)

\* C15: the keyword_density of calculate_score is occurrences x keyword
\* length / body length x 100, and the density sub-score and the density
\* level are derived from that value.
C15_DensityByOccurrence ==
    Scored =>
        LET d == OccurrenceDensity(seo.body, seo.keyword)
        IN /\ Score.keyword_density = d
           /\ Score.c_rank_score = CRankScore(d)
           /\ Score.keyword_density_level = DensityLevel(d)

SubScores == {Score.auth_gr_score, Score.c_rank_score, Score.dia_plus_score,
              Score.ai_briefing_score}

\* C16: the total is within 0..100, every sub-score within 0..25, and the
\* total is min(100, sum of the four sub-scores).
C16_ScoreRanges ==
    Scored =>
        /\ 0 <= Score.total_score /\ Score.total_score <= 100
        /\ \A x \in SubScores : 0 <= x /\ x <= 25
        /\ Score.total_score =
              Min2(100, Score.auth_gr_score + Score.c_rank_score
                        + Score.dia_plus_score + Score.ai_briefing_score)

\* title, first 100 characters and a long first sentence all carry the
\* keyword: 30 points, capped to 25
C16_Witness ==
    /\ Scored
    /\ AiBriefingPoints(seo.title, seo.body, seo.keyword) = 30
    /\ Score.ai_briefing_score = 25
    /\ Score.total_score = 100

EmptyInput == seo.title.len = 0 /\ seo.body.len = 0 /\ seo.keyword.len = 0

\* C17: for an empty title, body and keyword the total score is 0.
C17_EmptyInputScoresZero ==
    (Scored /\ EmptyInput) => Score.total_score = 0

----------------------------------------------------------------------------
(* the post store: posts rows with the scores stored next to the body, and *)
(* legal_references.  Texts carry three more observations:                 *)
(*   citations  the legal citations matched in the text, in order          *)
(*   topic      texts (titles) of one topic are similar to each other      *)
(*   flagged    detect_ai_patterns(text).needs_rewrite                     *)

MIN_SEO_SCORE == 70
MaxPosts == 1

StoreKeyword == [len |-> 5]

\* ContentEngine._review_seo: rule-based score and density by occurrences
review_seo(title, body, keyword) ==
    LET keyword_count == IF keyword.len > 0 THEN body.kw ELSE 0
        n == IF body.len > 0 THEN keyword_count * keyword.len * 100 ELSE 0
        score ==
            50
            + (IF keyword.len > 0 /\ title.hasKw THEN 15 ELSE 0)
            + (IF keyword.len > 0 /\ body.kwFirst100 THEN 10 ELSE 0)
            + (IF body.len > 0 /\ body.len <= n /\ n <= 3 * body.len THEN 15
               ELSE IF body.len > 0 /\ ((body.len <= 2 * n /\ n < body.len)
                                        \/ (3 * body.len < n /\ n <= 4 * body.len))
                    THEN 8 ELSE 0)
            + (IF body.h2 >= 3 THEN 10 ELSE IF body.h2 >= 1 THEN 5 ELSE 0)
            + (IF body.len >= 2000 THEN 10 ELSE IF body.len >= 1500 THEN 5 ELSE 0)
            + (IF body.link THEN 5 ELSE 0)
    IN [score |-> Min2(score, 100),
        keyword_density |-> IF body.len > 0 THEN RoundDiv(n * 100, body.len) ELSE 0]

\* what the generator first writes: two citations, one of them twice
DraftText ==
    [len |-> 2000, words |-> 400, kwWords |-> 8, kw |-> 10, cites |-> 5, h2 |-> 3,
     h3 |-> 0, tableRows |-> 3, faq |-> 3, link |-> TRUE, kwFirst100 |-> TRUE,
     sentence |-> "long", kwSentence |-> TRUE,
     citations |-> <<"law_a", "law_b", "law_a">>, topic |-> 1, flagged |-> TRUE]

\* the same text after a legal correction or a rewrite: shorter, fewer
\* keyword occurrences, one citation replaced by a neutral wording
RevisedText ==
    [DraftText EXCEPT !.len = 1800, !.kwWords = 5, !.kw = 6, !.cites = 3,
                      !.link = FALSE, !.kwFirst100 = FALSE, !.kwSentence = FALSE,
                      !.citations = <<"law_a">>, !.flagged = FALSE]

\* a text on another topic that cites no law
PlainText ==
    [DraftText EXCEPT !.len = 1500, !.words = 300, !.kwWords = 3, !.kw = 3,
                      !.cites = 0, !.h2 = 1, !.tableRows = 0, !.faq = 0,
                      !.citations = <<>>, !.topic = 2, !.flagged = FALSE]

StoreTexts == {DraftText, RevisedText, PlainText}

StoreTitles == {[len |-> 20, hasKw |-> TRUE, topic |-> 1],
                [len |-> 20, hasKw |-> TRUE, topic |-> 2]}

\* what _verify_legal_references or the humanizer can turn a text into
Rewrites(text) == {u \in StoreTexts : u.topic = text.topic}

\* extract_citations: one entry per (law, article), in order of appearance
RECURSIVE Unique(_, _)
Unique(s, seen) ==
    IF s = <<>> THEN <<>>
    ELSE IF Head(s) \in seen THEN Unique(Tail(s), seen)
    ELSE <<Head(s)>> \o Unique(Tail(s), seen \cup {Head(s)})

extract_citations(text) == Unique(text.citations, {})

\* LegalVerifier.process_post on the legal_references rows (a set: the
\* DELETE before the INSERTs keeps (post_id, citation) unique)
process_post(refs, post_id, body) ==
    LET citations == extract_citations(body)
        kept == {r \in refs : r.post_id # post_id}
    IN IF citations = <<>> THEN refs
       ELSE kept \cup {[post_id |-> post_id, citation |-> citations[i],
                        verification_status |-> "pending"] :
                          i \in DOMAIN citations}

\* the comparison of check_duplicate: title similarity >= 0.6 or body
\* similarity >= 0.4 with one of the rows read
IsDuplicate(title, body, existing_posts) ==
    \E i \in DOMAIN existing_posts :
        \/ existing_posts[i].title.topic = title.topic
        \/ existing_posts[i].body.topic = body.topic

\* SELECT title, body FROM posts WHERE status IN (...) AND id != ?
ExistingPosts(rows, exclude_post_id) ==
    [i \in 1..(Len(rows) - 1) |->
        IF i < exclude_post_id THEN rows[i] ELSE rows[i + 1]]

\* QualityChecker.check_duplicate; read_fails: the corpus query raises
check_duplicate(title, body, rows, exclude_post_id, read_fails) ==
    IF read_fails THEN [raised |-> TRUE, is_duplicate |-> FALSE]
    ELSE LET existing_posts == ExistingPosts(rows, exclude_post_id)
         IN [raised |-> FALSE,
             is_duplicate |-> IF existing_posts = <<>> THEN FALSE
                              ELSE IsDuplicate(title, body, existing_posts)]

\* ContentEngine.generate_post from the SEO review to the INSERT: body0 is
\* the text of the last (re)generation, body1 the text after
\* _verify_legal_references, body2 the text after Humanizer.review_and_fix
GeneratedRow(title, body0, body2) ==
    LET seo_result == review_seo(title, body0, StoreKeyword)
    IN [title |-> title, body |-> body2,
        seo_score |-> seo_result.score,
        keyword_density |-> seo_result.keyword_density,
        status |-> "draft"]

\* the row after cmd_generate's scoring, plagiarism and duplicate checks
CheckedRow(row, dup, plagiarism_ok) ==
    LET seo_result == calculate_score(row.title, row.body, StoreKeyword)
    IN [row EXCEPT
          !.status = IF dup.is_duplicate THEN "draft"
                     ELSE IF seo_result.total_score >= MIN_SEO_SCORE /\ plagiarism_ok
                          THEN "approved" ELSE "draft",
          !.seo_score = seo_result.total_score]

\* one iteration of cmd_generate's loop.  An exception of check_duplicate
\* is caught by the loop's except clause: the row stays as inserted.
CmdGenerate(title, body0, body1, body2, read_fails, plagiarism_ok) ==
    /\ gen.pc # "off"
    /\ Len(posts) < MaxPosts
    /\ body1 \in Rewrites(body0)
    /\ body2 \in Rewrites(body1)
    /\ LET post_id == Len(posts) + 1
           row == GeneratedRow(title, body0, body2)
           dup == check_duplicate(title, body2, Append(posts, row), post_id,
                                  read_fails)
       IN /\ posts' = Append(posts, IF dup.raised THEN row
                                    ELSE CheckedRow(row, dup, plagiarism_ok))
          /\ legal_references' = process_post(legal_references, post_id, body2)
          /\ gen' = [gen EXCEPT !.pc = "done", !.op = "generate",
                                !.post = post_id, !.dup = <<dup>>,
                                !.read_fails = read_fails,
                                !.rows_read = Len(posts),
                                !.plagiarism_ok = plagiarism_ok]
    /\ UNCHANGED <<now, tz, ticks, history, post_status, att, hz, rv,
                   rot, sched, seo, det>>

Operated(op, p) ==
    [pc |-> "done", op |-> op, post |-> p, dup |-> <<>>, read_fails |-> FALSE,
     rows_read |-> 0, plagiarism_ok |-> FALSE]

\* API PUT /posts/<id>: title, body and html_body are replaced
UpdatePost(p, title, body) ==
    /\ gen.pc # "off"
    /\ p \in DOMAIN posts
    /\ title = posts[p].title
    /\ posts' = [posts EXCEPT ![p].title = title, ![p].body = body]
    /\ gen' = Operated("update", p)
    /\ UNCHANGED <<now, tz, ticks, history, post_status, att, hz, rv,
                   rot, sched, seo, legal_references, det>>

\* cmd_review --fix on one post whose review asks for a rewrite and whose
\* review_and_fix result differs from the stored body
CmdReviewFix(p, fixed_body) ==
    /\ gen.pc # "off"
    /\ p \in DOMAIN posts
    /\ posts[p].body.flagged
    /\ fixed_body \in Rewrites(posts[p].body) \ {posts[p].body}
    /\ posts' = [posts EXCEPT ![p].body = fixed_body]
    /\ gen' = Operated("fix", p)
    /\ UNCHANGED <<now, tz, ticks, history, post_status, att, hz, rv,
                   rot, sched, seo, legal_references, det>>

\* API POST /posts/<id>/legal/extract
ExtractLegalCitations(p) ==
    /\ gen.pc # "off"
    /\ p \in DOMAIN posts
    /\ legal_references' = process_post(legal_references, p, posts[p].body)
    /\ gen' = Operated("extract", p)
    /\ UNCHANGED <<now, tz, ticks, history, post_status, att, hz, rv,
                   rot, sched, seo, posts, det>>

\* LegalVerifier.verify_post: every stored reference of the post gets the
\* status of its check
VerifyPost(p, status) ==
    /\ gen.pc # "off"
    /\ p \in DOMAIN posts
    /\ \E r \in legal_references :
          r.post_id = p /\ r.verification_status = "pending"
    /\ legal_references' =
          {IF r.post_id = p THEN [r EXCEPT !.verification_status = status] ELSE r :
              r \in legal_references}
    /\ gen' = Operated("verify", p)
    /\ UNCHANGED <<now, tz, ticks, history, post_status, att, hz, rv,
                   rot, sched, seo, posts, det>>

InitContent ==
    /\ posts = <<>>
    /\ legal_references = {}
    /\ gen = [pc |-> "idle", op |-> "none", post |-> 0, dup |-> <<>>,
              read_fails |-> FALSE, rows_read |-> 0, plagiarism_ok |-> FALSE]
    /\ IdleGate
    /\ rot = Off /\ sched = Off /\ seo = Off /\ det = Off

NextContent ==
    \/ \E title \in StoreTitles, body0 \in StoreTexts, body1 \in StoreTexts,
          body2 \in StoreTexts, read_fails \in BOOLEAN, plagiarism_ok \in BOOLEAN :
          CmdGenerate(title, body0, body1, body2, read_fails, plagiarism_ok)
    \/ \E p \in DOMAIN posts, title \in StoreTitles, body \in StoreTexts :
          UpdatePost(p, title, body)
    \/ \E p \in DOMAIN posts, fixed_body \in StoreTexts : CmdReviewFix(p, fixed_body)
    \/ \E p \in DOMAIN posts : ExtractLegalCitations(p)
    \/ \E p \in DOMAIN posts, status \in {"verified", "failed"} :
          VerifyPost(p, status)

SpecContent == InitContent /\ [][NextContent]_vars

\* the scores either scorer computes from the stored title and body
FreshScores(row) ==
    {calculate_score(row.title, row.body, StoreKeyword).total_score,
     review_seo(row.title, row.body, StoreKeyword).score}
FreshDensities(row) ==
    {calculate_score(row.title, row.body, StoreKeyword).keyword_density,
     review_seo(row.title, row.body, StoreKeyword).keyword_density}

\* C14: for every stored post the stored seo_score and keyword_density are
\* the values computed from the currently stored body.
C14_ScoresMatchBody ==
    \A p \in DOMAIN posts :
        /\ posts[p].seo_score \in FreshScores(posts[p])
        /\ posts[p].keyword_density \in FreshDensities(posts[p])

Generated == gen.pc = "done" /\ gen.op = "generate"

\* C18: when the corpus read of check_duplicate returns no rows or fails,
\* the result is 'not a duplicate', no exception reaches cmd_generate, and
\* the post is approved exactly when its SEO score and plagiarism check allow.
C18_DuplicateCheckFailOpen ==
    (Generated /\ (gen.read_fails \/ gen.rows_read = 0)) =>
        LET row == posts[gen.post] IN
        /\ ~gen.dup[1].raised
        /\ ~gen.dup[1].is_duplicate
        /\ row.status = "approved" <=>
              (calculate_score(row.title, row.body, StoreKeyword).total_score
                  >= MIN_SEO_SCORE /\ gen.plagiarism_ok)

Processed == gen.pc = "done" /\ gen.op \in {"generate", "extract"}

\* C19: after process_post(post_id, body) the stored references of the post
\* are exactly the citations extracted from that body, all 'pending'.
C19_ReferencesReplaced ==
    Processed =>
        LET citations == extract_citations(posts[gen.post].body) IN
        {r \in legal_references : r.post_id = gen.post}
          = {[post_id |-> gen.post, citation |-> citations[i],
              verification_status |-> "pending"] : i \in DOMAIN citations}

----------------------------------------------------------------------------
(* repeated detection: detect_ai_patterns called several times on one body, *)
(* with other calls and changes to the returned result object in between.   *)
(* rv is the result object returned by the latest call.                     *)

MaxCalls == 3

\* detect_ai_patterns(det.body); the caller keeps the returned object
DetectBody ==
    /\ det.pc = "ready"
    /\ Len(det.results) < MaxCalls
    /\ LET result == detect_ai_patterns(det.body)
       IN /\ det' = [det EXCEPT !.results = Append(@, result), !.touched = FALSE]
          /\ rv' = result
    /\ UNCHANGED <<now, tz, ticks, history, post_status, att, hz,
                   rot, sched, seo, posts, legal_references, gen>>

\* a call on another body, and quick_fix_patterns on the body
DetectOther(b) ==
    /\ det.pc = "ready"
    /\ det.others < MaxCalls
    /\ b # det.body
    /\ det' = [det EXCEPT !.others = @ + 1, !.touched = FALSE]
    /\ rv' = detect_ai_patterns(quick_fix_patterns(b))
    /\ UNCHANGED <<now, tz, ticks, history, post_status, att, hz,
                   rot, sched, seo, posts, legal_references, gen>>

\* the caller adds an issue to the result object it holds (once per call)
CallerAddsIssue(sev) ==
    /\ det.pc = "ready"
    /\ det.results # <<>>
    /\ ~det.touched
    /\ det' = [det EXCEPT !.touched = TRUE]
    /\ rv' = add_issue(rv, "caller", sev)
    /\ UNCHANGED <<now, tz, ticks, history, post_status, att, hz,
                   rot, sched, seo, posts, legal_references, gen>>

InitDetect ==
    /\ \E b \in Bodies \cup {LowBody} :
          det = [pc |-> "ready", body |-> b, results |-> <<>>, others |-> 0,
                 touched |-> FALSE]
    /\ now = 0 /\ tz = 0 /\ ticks = 0 /\ history = <<>>
    /\ post_status = [p \in Posts |-> "draft"]
    /\ att = [a \in {1} |-> IdleAttempt]
    /\ hz = HzOff
    /\ rv = NewReview
    /\ rot = Off /\ sched = Off /\ seo = Off /\ gen = Off
    /\ posts = <<>> /\ legal_references = {}

NextDetect ==
    \/ DetectBody
    \/ \E b \in Bodies : DetectOther(b)
    \/ \E sev \in SeveritySamples : CallerAddsIssue(sev)

SpecDetect == InitDetect /\ [][NextDetect]_vars

----------------------------------------------------------------------------
(* detect_ai_patterns on a body and on the same body with text appended *)

MaxAdded == 3

\* bodies whose level-2 sections all carry the same number of bullet lines
ThreeBulletBody == [CleanBody EXCEPT !.sections = <<3, 3>>]
OneBulletBody == [CleanBody EXCEPT !.sections = <<1, 1, 1>>]

\* a body with three of the listed phrases, once each
PhrasesBody == [CleanBody EXCEPT !.phrases = [Zeros(9) EXCEPT ![1] = 1, ![2] = 1, ![5] = 1]]

BaseBodies == Bodies \cup {ThreeBulletBody, OneBulletBody, PhrasesBody}

TextKinds == {"seyo", "nida", "phrase1", "phrase2", "phrase9", "exclamations",
              "bold", "advice", "section3", "section1"}

AddPhrase(b, i, n) ==
    [b EXCEPT !.phrases[i] = @ + 1, !.len = @ + n, !.paras = AdjustLast(@, n)]

\* the body with one more sentence, marker or section at its end
Appended(b, kind) ==
    CASE kind = "seyo" ->
           [b EXCEPT !.seyo = @ + 1, !.len = @ + 8, !.paras = AdjustLast(@, 8)]
      [] kind = "nida" ->
           [b EXCEPT !.nida = @ + 1, !.len = @ + 8, !.paras = AdjustLast(@, 8)]
      [] kind = "phrase1" -> AddPhrase(b, 1, 9)
      [] kind = "phrase2" -> AddPhrase(b, 2, 6)
      [] kind = "phrase9" -> AddPhrase(b, 9, 4)
      [] kind = "exclamations" ->
           [b EXCEPT !.excl = @ + 3, !.exclRuns = @ + 1, !.len = @ + 3,
                     !.paras = AdjustLast(@, 3)]
      [] kind = "bold" ->
           [b EXCEPT !.bold = @ + 1, !.len = @ + 6, !.paras = AdjustLast(@, 6)]
      [] kind = "advice" ->
           [b EXCEPT !.advice = @ + 1, !.len = @ + 9, !.paras = AdjustLast(@, 9)]
      [] kind = "section3" ->
           [b EXCEPT !.sections = Append(@, 3), !.len = @ + 42,
                     !.paras = Append(@, 40)]
      [] kind = "section1" ->
           [b EXCEPT !.sections = Append(@, 1), !.len = @ + 22,
                     !.paras = Append(@, 20)]

\* detect_ai_patterns(body + text)
DetectExtended(kind) ==
    /\ det.pc = "pair"
    /\ det.added < MaxAdded
    /\ LET body == Appended(det.ext, kind)
       IN det' = [det EXCEPT !.ext = body, !.added = @ + 1,
                             !.rext = detect_ai_patterns(body)]
    /\ UNCHANGED <<now, tz, ticks, history, post_status, att, hz, rv,
                   rot, sched, seo, posts, legal_references, gen>>

InitExtend ==
    /\ \E b \in BaseBodies :
          det = [pc |-> "pair", base |-> b, ext |-> b, added |-> 0,
                 rbase |-> detect_ai_patterns(b), rext |-> detect_ai_patterns(b)]
    /\ IdleGate
    /\ rot = Off /\ sched = Off /\ seo = Off /\ gen = Off
    /\ posts = <<>> /\ legal_references = {}

NextExtend == \E kind \in TextKinds : DetectExtended(kind)

SpecExtend == InitExtend /\ [][NextExtend]_vars

\* the rule groups that reported an issue
Triggered(r) == {r.issues[i].category : i \in DOMAIN r.issues}

\* C21: when text is appended so that every rule that reported an issue for
\* the original body still reports one and one more rule reports, the score
\* of the extended body is at most the score of the original body.
C21_MonotonicSeverity ==
    (/\ det.added >= 1
     /\ Triggered(det.rbase) \subseteq Triggered(det.rext)
     /\ Triggered(det.rext) # Triggered(det.rbase))
    => det.rext.score <= det.rbase.score

\* the issues of the direct-phrase rule, in report order
PhraseIssues(r) ==
    SelectSeq(r.issues, LAMBDA x : x.category \in {"cliche_phrase", "cliche_total"})

\* one issue for each of the first k listed phrases, from index i, that occur
RECURSIVE FirstDistinct(_, _, _)
FirstDistinct(counts, i, k) ==
    IF i > Len(counts) \/ k = 0 THEN <<>>
    ELSE IF counts[i] >= 1
         THEN <<[category |-> "cliche_phrase", severity |-> PhraseSeverity[i]]>>
              \o FirstDistinct(counts, i + 1, k - 1)
         ELSE FirstDistinct(counts, i + 1, k)

\* C25: the first 3 distinct listed phrases that occur are reported one by
\* one with their severity, however often each occurs, and a cumulative
\* issue of severity 5 follows exactly when the occurrences total 3 or more.
C25_FirstThreeDistinctPhrases ==
    PhraseIssues(det.rext)
      = FirstDistinct(det.ext.phrases, 1, 3)
        \o (IF SumSeq(det.ext.phrases) >= 3
            THEN <<[category |-> "cliche_total", severity |-> 5]>> ELSE <<>>)

\* C26: the identical-section-structure issue (severity 5) is reported
\* exactly when the body has at least 4 level-2 sections and all of them
\* have the same nonzero number of bullet lines.
C26_SectionStructureRule ==
    LET counts == det.ext.sections IN
    ([category |-> "section", severity |-> 5]
        \in {det.rext.issues[i] : i \in DOMAIN det.rext.issues})
    <=> (/\ Len(counts) >= 4
         /\ \A i \in DOMAIN counts : counts[i] = counts[1] /\ counts[i] >= 1)

----------------------------------------------------------------------------
(* review_and_fix: the returned pair *)

\* C24: on every path of review_and_fix the returned body is an accepted
\* rewrite candidate or quick_fix_patterns(input body); after a rejected or
\* not better rewrite it is the normalized text handed to the rewriter.
C24_QuickFixUnconditional ==
    Done => \/ Out.body = quick_fix_patterns(hz.body)
            \/ hz.hb = "accepted" /\ Out.body = Candidate

\* C27: on every path the returned review is the detection result of the
\* returned body, and the returned body scores at least the input's score.
C27_ReturnedPairConsistent ==
    Done => /\ Out.review.score = detect_ai_patterns(Out.body).score
            /\ detect_ai_patterns(Out.body).score >= InputScore

----------------------------------------------------------------------------
(* a sequence of publish attempts, one at a time, each behind the gate *)

SerialPosts == 3
MaxWaits == 3
MaxRows == 4

\* hours that pass between two steps: the minimum interval, half a day
WaitHours == {MIN_INTERVAL_HOURS, 12}

\* `python main.py publish` without --force, every history query answered
SerialCmdPublish(a, skip_review) ==
    /\ Len(history) < MaxRows
    /\ CmdPublish(a, FALSE, skip_review, {})

\* the command returns; the next invocation starts from scratch
Return(a) ==
    /\ att[a].pc = "done"
    /\ att' = [att EXCEPT ![a] = IdleAttempt]
    /\ UNCHANGED <<now, tz, ticks, history, post_status, hz, rv, contentVars>>

Wait(hours) ==
    /\ ticks < MaxWaits
    /\ now' = now + hours
    /\ ticks' = ticks + 1
    /\ UNCHANGED <<tz, history, post_status, att, hz, rv, contentVars>>

InitSerial ==
    /\ tz \in TzOffsets
    /\ now \in StartTimes
    /\ ticks = 0
    /\ history = <<>>
    /\ post_status = [p \in 1..SerialPosts |-> "approved"]
    /\ att = [a \in {1} |-> IdleAttempt]
    /\ InitOther

NextSerial ==
    \/ \E skip_review \in BOOLEAN : SerialCmdPublish(1, skip_review)
    \/ \E ok \in BOOLEAN : PosterPublish(1, ok)
    \/ UpdateStatus(1)
    \/ Return(1)
    \/ \E hours \in WaitHours : Wait(hours)

SpecSerial == InitSerial /\ [][NextSerial]_vars

\* successes in the 7 days that end with the publish time t
WindowCount(h, t) ==
    Cardinality({i \in Successes(h) :
                    h[i].at <= t /\ t - h[i].at < DaysPerWeek * HoursPerDay})

\* C22: with serialized attempts that reach the poster only after
\* can_publish returned true, and no failing query, the successes in the
\* history are pairwise at least min_interval_hours apart, no day holds more
\* than max_posts_per_day of them and no 7-day window more than
\* max_posts_per_week; failed rows do not count.
C22_SerialHistoryWithinLimits ==
    \A i \in Successes(history) :
        /\ \A j \in Successes(history) :
              i # j => Dist(history[i].at, history[j].at) >= MIN_INTERVAL_HOURS
        /\ TodayCount(history, history[i].at) <= MAX_POSTS_PER_DAY
        /\ WindowCount(history, history[i].at) <= MAX_POSTS_PER_WEEK

----------------------------------------------------------------------------
(* the status of a post under approve, reject and publish requests *)

\* api.py approve_post: refused for a published post
ApprovePost(p) ==
    /\ post_status[p] # "published"
    /\ post_status' = [post_status EXCEPT ![p] = "approved"]
    /\ UNCHANGED <<now, tz, ticks, history, att, hz, rv, contentVars>>

\* api.py reject_post: the status is read to find the post, then overwritten
RejectPost(p) ==
    /\ post_status' = [post_status EXCEPT ![p] = "draft"]
    /\ UNCHANGED <<now, tz, ticks, history, att, hz, rv, contentVars>>

\* publish requests made in one run
MaxPublishes == 2

InitStatus ==
    /\ tz = 0 /\ now \in StartTimes /\ ticks = 0
    /\ history = <<>>
    /\ post_status \in [Posts -> {"draft", "approved"}]
    /\ att = [a \in {1} |-> IdleAttempt]
    /\ InitOther

NextStatus ==
    \/ \E p \in Posts : ApprovePost(p)
    \/ \E p \in Posts : RejectPost(p)
    \/ \E p \in Posts : Len(history) < MaxPublishes /\ PublishPost(1, p)
    \/ \E skip_review \in BOOLEAN :
          Len(history) < MaxPublishes /\ SerialCmdPublish(1, skip_review)
    \/ \E ok \in BOOLEAN : PosterPublish(1, ok)
    \/ UpdateStatus(1)
    \/ Return(1)

SpecStatus == InitStatus /\ [][NextStatus]_vars

StatusTransitions ==
    {<<"draft", "approved">>, <<"approved", "draft">>, <<"approved", "published">>}

\* C28: the status of a post changes only draft -> approved,
\* approved -> draft and approved -> published, and a post that has reached
\* 'published' never changes status again.
C28_StatusStateMachine ==
    [][\A p \in DOMAIN post_status :
          post_status'[p] # post_status[p]
          => <<post_status[p], post_status'[p]>> \in StatusTransitions]_vars

\* C30: under any interleaving of publish requests posting_history never
\* holds two 'success' rows for the same post.
C30_PublishedAtMostOnce ==
    \A p \in Posts :
        Cardinality({i \in Successes(history) : history[i].post = p}) <= 1

----------------------------------------------------------------------------
(* cmd_generate runs tagging approved posts, starting from an empty table *)

MaxSelected == 16
MaxBatch == 2

\* positive values of POSTS_PER_CATEGORY_ROTATE
RotateCounts == {1, 2, POSTS_PER_CATEGORY_ROTATE}

CategoryNow(count, quota) ==
    current_publish_category(count, SumCounts(count), PUBLISH_CATEGORY_ORDER, quota)

\* cmd_generate decides the category once, before its loop over `count` posts
GenerateStart(batch) ==
    /\ rot.pc = "idle"
    /\ Len(rot.selected) < MaxSelected
    /\ rot' = [rot EXCEPT !.pc = "loop", !.remaining = batch,
                          !.category = CategoryNow(rot.count, rot.quota)]
    /\ UNCHANGED <<now, tz, ticks, history, post_status, att, hz, rv,
                   sched, seo, posts, legal_references, gen, det>>

\* one iteration: the post is tagged with the category of the run and its
\* status becomes 'approved' or 'draft'
GenerateOne(approved) ==
    /\ rot.pc = "loop"
    /\ rot' = [rot EXCEPT
          !.pc = IF rot.remaining = 1 THEN "idle" ELSE "loop",
          !.remaining = @ - 1,
          !.count = IF approved THEN [@ EXCEPT ![rot.category] = @ + 1] ELSE @,
          !.selected = IF approved THEN Append(@, rot.category) ELSE @,
          !.current = IF approved
                      THEN @ /\ rot.category = CategoryNow(rot.count, rot.quota)
                      ELSE @]
    /\ UNCHANGED <<now, tz, ticks, history, post_status, att, hz, rv,
                   sched, seo, posts, legal_references, gen, det>>

InitRoundRobin ==
    /\ \E quota \in RotateCounts :
          rot = [pc |-> "idle", quota |-> quota, remaining |-> 0,
                 category |-> "none", count |-> [c \in Categories |-> 0],
                 selected |-> <<>>, current |-> TRUE]
    /\ IdleGate
    /\ sched = Off /\ seo = Off /\ gen = Off /\ det = Off
    /\ posts = <<>> /\ legal_references = {}

NextRoundRobin ==
    \/ \E batch \in 1..MaxBatch : GenerateStart(batch)
    \/ \E approved \in BOOLEAN : GenerateOne(approved)

SpecRoundRobin == InitRoundRobin /\ [][NextRoundRobin]_vars

\* the k-th selection of a round-robin with `quota` posts per category
RoundRobin(k, order, quota) == order[(((k - 1) \div quota) % Len(order)) + 1]

\* C23: starting from an empty post table, when every approved post was
\* tagged with the category _get_current_publish_category returned at that
\* moment, the selected categories are quota posts of the first category,
\* then quota of the second, ..., and again from the first in every later
\* round.
C23_RoundRobin ==
    rot.current =>
        \A k \in DOMAIN rot.selected :
            rot.selected[k] = RoundRobin(k, PUBLISH_CATEGORY_ORDER, rot.quota)

\* quota 5: the sixteenth approved post opens the second round
C23_Witness ==
    /\ rot.current
    /\ rot.quota = POSTS_PER_CATEGORY_ROTATE
    /\ Len(rot.selected) = POSTS_PER_CATEGORY_ROTATE * Len(PUBLISH_CATEGORY_ORDER) + 1
    /\ rot.selected[Len(rot.selected)] = PUBLISH_CATEGORY_ORDER[1]

----------------------------------------------------------------------------
(* the next publish time shown after a refusal *)

\* C29: when can_publish refuses because the minimum interval is not met,
\* the time returned by get_next_publish_time is never earlier than the
\* last successful publish time plus min_interval_hours.
C29_NextTimeMeetsInterval ==
    (/\ sched.pc = "done" /\ ~sched.qfail
     /\ can_publish(history, now, tz, {}) = [ok |-> FALSE, reason |-> "interval"])
    => sched.next[1].time
         >= (QueryLastSuccess(history)[1] + MIN_INTERVAL_HOURS) * MinutesPerHour

====
